---- MODULE Spec2Model ----
(***************************************************************************)
(* The pan/zoom Transform controller of the InteractiveMap component       *)
(* (src/src/types/index.ts, from line 92 on) and the tooltip's mapping     *)
(* from map space to the screen (src/unnamed/part_002).                    *)
(*                                                                         *)
(* Numbers.  The source computes in IEEE doubles.  The model carries a     *)
(* scale as an integer number of hundredths (ScaleUnit per 1.0) and a      *)
(* screen position as an integer number of 1/200 px (PosUnit per pixel),   *)
(* and rounds the result of a multiplication or division to the nearest    *)
(* unit, as the double arithmetic rounds to its own precision.  With       *)
(* these units canvasSize * scale and (W - canvasSize * scale) / 2 are     *)
(* exact.                                                                  *)
(*                                                                         *)
(* React.  A handler reads the state of the render it was created in       *)
(* (its closure); setState queues an update that the next render applies.  *)
(* The variables transform, isDragging, dragStart and lastTouchDistance    *)
(* hold the state with every queued update applied in order; view holds    *)
(* what the last render saw, which is what the handlers read.  ui and      *)
(* uiView do the same for the hooks of the markers, tooltips and preview.  *)
(*                                                                         *)
(* Timers.  setTimeout returns an id that no pending timer and no ref      *)
(* holds; timers is the set of timers that were set and have neither       *)
(* fired nor been cleared.                                                 *)
(*                                                                         *)
(* Data.  Spec, SpecClamp and SpecMap draw the clusters of one fixed data  *)
(* set (Clusters) and leave filteredProjects, clusters and the colour map  *)
(* empty; SpecData and SpecColors are about these.  SpecProvider is the     *)
(* ProjectProvider (src/unnamed/part_001) with its server; the other       *)
(* specifications leave it at rest, its list loaded and no call in flight. *)
(***************************************************************************)
EXTENDS Integers, Sequences, FiniteSets, TLC

VARIABLES
    transform,          \* useState<Transform>: [x, y, scale]
    isDragging,         \* useState(false)
    dragStart,          \* useState({x: 0, y: 0})
    lastTouchDistance,  \* useState<number | null>(null)
    view,               \* the state the last render saw (the handlers' closure)
    rect,               \* mapRef.current?.getBoundingClientRect()
    centerTimer,        \* the setTimeout(centerMap, 100) of the mount effect is pending
    ev,                 \* the event delivered last
    nEvents,            \* how many events have been delivered
    ui,                 \* the hooks of the markers, the tooltips and the preview
    selectedProject,    \* selectedProject of the project context
    uiView,             \* ui and selectedProject as the last render saw them
    mounted,            \* the component is mounted
    hoverDevice,        \* matchMedia('(hover: hover) and (pointer: fine)').matches
    interactionTimeoutRef,  \* useRef<NodeJS.Timeout>(): a timer id, 0 = undefined
    tooltipTimeoutRef,      \* useRef<NodeJS.Timeout>(): a timer id, 0 = undefined
    clusterTimeout,     \* the timeout the hoveredCluster effect's cleanup will clear
    timers,             \* the pending timers: [kind, id]
    isInteracting,      \* what onInteractionChange told the parent last
    filteredProjects,   \* filteredProjects of the project context
    clusters,           \* useMemo: clusterMarkers(filteredProjects, transform.scale)
    convocatoriaColorMap,   \* new Map<string, number>() of convocatoriaColors
    calls,              \* the calls made to convocatoriaColors since the map was empty
    projects,           \* useState<Project[]>([]) of ProjectProvider
    server,             \* the projects the server holds
    localStore,         \* localStorage 'mexico-social-projects'
    migrated,           \* localStorage 'projects-migrated-to-supabase' is 'true'
    isLoading,          \* useState<boolean>(true)
    isSyncing,          \* useState<boolean>(false)
    load,               \* where loadProjects is
    ops,                \* the addProject, removeProject, clearAllProjects calls in flight
    nOps                \* how many such calls have been made

mapVars == <<ui, selectedProject, uiView, mounted, hoverDevice, interactionTimeoutRef,
             tooltipTimeoutRef, clusterTimeout, timers, isInteracting>>

dataVars == <<filteredProjects, clusters, convocatoriaColorMap, calls>>

providerVars == <<projects, server, localStore, migrated, isLoading, isSyncing, load, ops, nOps>>

vars == <<transform, isDragging, dragStart, lastTouchDistance, view, rect,
          centerTimer, ev, nEvents, mapVars, dataVars, providerVars>>

----------------------------------------------------------------------------
(* Bounds of the model *)

MaxEvents == 3

----------------------------------------------------------------------------
(* Number representation *)

ScaleUnit == 100
PosUnit == 2 * ScaleUnit

Min(a, b) == IF a <= b THEN a ELSE b
Max(a, b) == IF a >= b THEN a ELSE b

\* n / d rounded to the nearest integer (d > 0)
Round(n, d) == (2 * n + d) \div (2 * d)

RECURSIVE SqrtIter(_, _, _)
SqrtIter(n, lo, hi) ==
    IF lo >= hi THEN lo
    ELSE LET mid == (lo + hi + 1) \div 2
         IN  IF mid * mid <= n THEN SqrtIter(n, mid, hi) ELSE SqrtIter(n, lo, mid - 1)

\* Math.sqrt, to the whole pixel
Sqrt(n) == SqrtIter(n, 0, 4096)

Null == -1
NoRect == [left |-> 0, top |-> 0, width |-> -1, height |-> -1]

----------------------------------------------------------------------------
(* Constants of the source *)

mapWidth == 2638
mapHeight == 1822
mapOffsetX == 455
mapOffsetY == 521
effectiveMapWidth == mapWidth - mapOffsetX
effectiveMapHeight == mapHeight - mapOffsetY

\* the literal 3 (maximum zoom) and the literal 0.6 (absolute minimum zoom)
maxZoom == 3 * ScaleUnit
floorZoom == (6 * ScaleUnit) \div 10

----------------------------------------------------------------------------
(* constrainToBounds: x, y in position units, scale in scale units *)

\* mutant: an elastic edge, giving back half of what lies beyond a bound
constrainToBoundsElastic(x, y, scale, r) ==
    IF r = NoRect THEN [x |-> x, y |-> y]
    ELSE LET minX == r.width * PosUnit - mapWidth * scale * 2
             maxX == mapOffsetX * scale * 2
             minY == r.height * PosUnit - mapHeight * scale * 2
             maxY == mapOffsetY * scale * 2
         IN  [x |-> IF x > maxX THEN maxX + (x - maxX) \div 2
                    ELSE IF x < minX THEN minX - (minX - x) \div 2 ELSE x,
              y |-> IF y > maxY THEN maxY + (y - maxY) \div 2
                    ELSE IF y < minY THEN minY - (minY - y) \div 2 ELSE y]

\* mutant: the two clamps applied in the other order
constrainToBoundsMinFirst(x, y, scale, r) ==
    IF r = NoRect THEN [x |-> x, y |-> y]
    ELSE LET minX == r.width * PosUnit - mapWidth * scale * 2
             maxX == mapOffsetX * scale * 2
             minY == r.height * PosUnit - mapHeight * scale * 2
             maxY == mapOffsetY * scale * 2
         IN  [x |-> Max(Min(x, maxX), minX), y |-> Max(Min(y, maxY), minY)]

constrainToBounds(x, y, scale, r) ==
    IF r = NoRect THEN [x |-> x, y |-> y]
    ELSE LET scaledMapWidth == mapWidth * scale * 2
             scaledMapHeight == mapHeight * scale * 2
             scaledOffsetX == mapOffsetX * scale * 2
             scaledOffsetY == mapOffsetY * scale * 2
             minX == r.width * PosUnit - scaledMapWidth
             maxX == scaledOffsetX
             minY == r.height * PosUnit - scaledMapHeight
             maxY == scaledOffsetY
         IN  [x |-> Min(Max(x, minX), maxX), y |-> Min(Max(y, minY), maxY)]

\* Math.min(scaleToFitWidth, scaleToFitHeight) * (k / 100), in scale units
fitScale(r, k) ==
    IF r.width * effectiveMapHeight <= r.height * effectiveMapWidth
    THEN Round(k * r.width, effectiveMapWidth)
    ELSE Round(k * r.height, effectiveMapHeight)

\* absoluteMinZoom of handleWheel and of the zoom-out button
absoluteMinZoom(r) == Max(fitScale(r, 90), floorZoom)

----------------------------------------------------------------------------
(* Inputs: viewports, pointer positions (client px), clusters              *)

Rects ==
    { [left |-> 0, top |-> 0, width |-> 0, height |-> 0],
      [left |-> 0, top |-> 0, width |-> 1080, height |-> 1920],
      [left |-> 0, top |-> 64, width |-> 1920, height |-> 1016],
      [left |-> 0, top |-> 0, width |-> 1920, height |-> 800] }

Pt(px, py) == [x |-> px, y |-> py]

MousePoints == { Pt(60, 144), Pt(300, 464) }
TouchPoints == { Pt(60, 144), Pt(300, 464) }
\* two touches 400 px apart, 100 px apart, and on the same spot
TouchPairs ==
    { <<Pt(60, 144), Pt(300, 464)>>, <<Pt(60, 144), Pt(120, 224)>>,
      <<Pt(300, 464), Pt(300, 464)>> }
DeltaYs == { -100, 100 }

\* a Cluster of markerClustering: centroid in map space (position units), the
\* number of its projects and the id of projects[0]
Clusters ==
    << [x |-> 600 * PosUnit + 100, y |-> 700 * PosUnit, n |-> 3, p |-> 3],
       [x |-> 2500 * PosUnit, y |-> 1700 * PosUnit, n |-> 2, p |-> 6],
       [x |-> 1319 * PosUnit, y |-> 911 * PosUnit, n |-> 1, p |-> 1],
       [x |-> 400 * PosUnit, y |-> 300 * PosUnit, n |-> 1, p |-> 2] >>

\* the clusters drawn as a ClusterMarker, and the projects drawn as a marker
Aggregates == { i \in 1..Len(Clusters) : Clusters[i].n > 1 }
Markers == { Clusters[i].p : i \in { j \in 1..Len(Clusters) : Clusters[j].n = 1 } }
\* markerX, markerY of a project drawn as a marker
MarkerPosition(project) ==
    LET i == CHOOSE j \in 1..Len(Clusters) : Clusters[j].n = 1 /\ Clusters[j].p = project
    IN  [x |-> Clusters[i].x, y |-> Clusters[i].y]
NoProject == 0
NoCluster == 0
NoPosition == [x |-> -1, y |-> -1]

----------------------------------------------------------------------------
(* The handlers.  seen is the state of the render the handler closes over, *)
(* prev the state the queued update is applied to.                         *)

\* mutant: centered with the full canvas size instead of the effective one
centerMapFullCanvas(prev, r) ==
    IF r = NoRect THEN prev
    ELSE LET initialScale == Max(fitScale(r, 95), floorZoom)
             centerX == (r.width * PosUnit - mapWidth * initialScale * 2) \div 2
             centerY == (r.height * PosUnit - mapHeight * initialScale * 2) \div 2
             c == constrainToBounds(centerX, centerY, initialScale, r)
         IN  [x |-> c.x, y |-> c.y, scale |-> initialScale]

centerMap(prev, r) ==
    IF r = NoRect THEN prev
    ELSE LET optimalScale == fitScale(r, 95)
             initialScale == Max(optimalScale, floorZoom)
             centerX == (r.width * PosUnit - effectiveMapWidth * initialScale * 2) \div 2
             centerY == (r.height * PosUnit - effectiveMapHeight * initialScale * 2) \div 2
             c == constrainToBounds(centerX, centerY, initialScale, r)
         IN  [x |-> c.x, y |-> c.y, scale |-> initialScale]

\* mutant: the centroid taken without the offset of the markers' container
handleClusterClickNoOffset(seen, prev, r, cluster) ==
    IF cluster.n = 1 THEN prev
    ELSE IF r = NoRect THEN prev
    ELSE LET newScale == Min(Round(seen.transform.scale * 25, 10), maxZoom)
             newX == (r.width * PosUnit) \div 2 - Round(cluster.x * newScale, ScaleUnit)
             newY == (r.height * PosUnit) \div 2 - Round(cluster.y * newScale, ScaleUnit)
             c == constrainToBounds(newX, newY, newScale, r)
         IN  [x |-> c.x, y |-> c.y, scale |-> newScale]

handleClusterClick(seen, prev, r, cluster) ==
    IF cluster.n = 1 THEN prev
    ELSE IF r = NoRect THEN prev
    ELSE LET actualClusterX == cluster.x - mapOffsetX * PosUnit
             actualClusterY == cluster.y - mapOffsetY * PosUnit
             newScale == Min(Round(seen.transform.scale * 25, 10), maxZoom)
             newX == (r.width * PosUnit) \div 2 - Round(actualClusterX * newScale, ScaleUnit)
             newY == (r.height * PosUnit) \div 2 - Round(actualClusterY * newScale, ScaleUnit)
             c == constrainToBounds(newX, newY, newScale, r)
         IN  [x |-> c.x, y |-> c.y, scale |-> newScale]

handleMouseMove(seen, prev, r, p) ==
    IF ~seen.isDragging THEN prev
    ELSE LET rawNewX == p.x * PosUnit - seen.dragStart.x
             rawNewY == p.y * PosUnit - seen.dragStart.y
             c == constrainToBounds(rawNewX, rawNewY, seen.transform.scale, r)
         IN  [prev EXCEPT !.x = c.x, !.y = c.y]

\* mutant: the translation scaled about the origin instead of the focal point
zoomAnchorAtOrigin(t, px, py, newScale) ==
    [x |-> Round(t.x * newScale, t.scale), y |-> Round(t.y * newScale, t.scale)]

\* the translation that keeps the point under (px, py) fixed, before clamping
zoomAnchor(t, px, py, newScale) ==
    [x |-> px - Round((px - t.x) * newScale, t.scale),
     y |-> py - Round((py - t.y) * newScale, t.scale)]

handleWheel(seen, prev, r, p, deltaY) ==
    IF r = NoRect THEN prev
    ELSE LET mouseX == (p.x - r.left) * PosUnit
             mouseY == (p.y - r.top) * PosUnit
             scaled == IF deltaY > 0 THEN Round(seen.transform.scale * 9, 10)
                                     ELSE Round(seen.transform.scale * 11, 10)
             newScale == Min(Max(scaled, absoluteMinZoom(r)), maxZoom)
             raw == zoomAnchor(seen.transform, mouseX, mouseY, newScale)
             c == constrainToBounds(raw.x, raw.y, newScale, r)
         IN  [x |-> c.x, y |-> c.y, scale |-> newScale]

getTouchDistance(touches) ==
    IF Len(touches) < 2 THEN Null
    ELSE LET dx == touches[1].x - touches[2].x
             dy == touches[1].y - touches[2].y
         IN  Sqrt(dx * dx + dy * dy)

\* the result of 0 / 0, which Math.max and Math.min hand on
NaN == 0

\* mutant: the condition tests for null only, as if 0 were a distance
TruthyNotNull(d) == d # Null

\* a number | null used as a condition
Truthy(d) == d # Null /\ d # 0

\* scaleFactor = currentDistance / lastTouchDistance and the clamped new scale;
\* a division by 0 gives Infinity, which the clamp turns into 3, or NaN
pinchScale(scale, currentDistance, lastDistance) ==
    IF lastDistance = 0
    THEN (IF scale * currentDistance = 0 THEN NaN ELSE maxZoom)
    ELSE Min(Max(Round(scale * currentDistance, lastDistance), floorZoom), maxZoom)

handleTouchMove(seen, prev, r, touches) ==
    IF Len(touches) = 1 /\ seen.isDragging
    THEN LET rawNewX == touches[1].x * PosUnit - seen.dragStart.x
             rawNewY == touches[1].y * PosUnit - seen.dragStart.y
             c == constrainToBounds(rawNewX, rawNewY, seen.transform.scale, r)
         IN  [prev EXCEPT !.x = c.x, !.y = c.y]
    ELSE IF Len(touches) = 2 /\ Truthy(seen.lastTouchDistance)
    THEN IF r = NoRect THEN prev
         ELSE LET currentDistance == getTouchDistance(touches)
              IN  IF ~Truthy(currentDistance) THEN prev
                  ELSE LET newScale == pinchScale(seen.transform.scale, currentDistance,
                                                  seen.lastTouchDistance)
                           centerX == ((touches[1].x + touches[2].x) * PosUnit) \div 2
                                          - r.left * PosUnit
                           centerY == ((touches[1].y + touches[2].y) * PosUnit) \div 2
                                          - r.top * PosUnit
                           raw == zoomAnchor(seen.transform, centerX, centerY, newScale)
                           c == constrainToBounds(raw.x, raw.y, newScale, r)
                       IN  [x |-> c.x, y |-> c.y, scale |-> newScale]
    ELSE prev

\* setLastTouchDistance(currentDistance) at the end of the pinch branch
touchMoveDistance(seen, prev, r, touches) ==
    IF Len(touches) = 1 /\ seen.isDragging THEN prev
    ELSE IF Len(touches) = 2 /\ Truthy(seen.lastTouchDistance) /\ r # NoRect
            /\ Truthy(getTouchDistance(touches))
    THEN getTouchDistance(touches)
    ELSE prev

zoomInClick(seen, prev, r) ==
    LET newScale == Min(Round(seen.transform.scale * 12, 10), maxZoom)
        c == constrainToBounds(seen.transform.x, seen.transform.y, newScale, r)
    IN  [x |-> c.x, y |-> c.y, scale |-> newScale]

zoomOutClick(seen, prev, r) ==
    IF r = NoRect THEN prev
    ELSE LET newScale == Max(Round(seen.transform.scale * 8, 10), absoluteMinZoom(r))
             c == constrainToBounds(seen.transform.x, seen.transform.y, newScale, r)
         IN  [x |-> c.x, y |-> c.y, scale |-> newScale]

\* mutant: the 0.9 padding of the minimum zoom instead of 0.95
resetClickMinZoomPadding(prev, r) ==
    IF r = NoRect THEN prev
    ELSE LET resetScale == Max(fitScale(r, 90), floorZoom)
             centerX == (r.width * PosUnit - effectiveMapWidth * resetScale * 2) \div 2
             centerY == (r.height * PosUnit - effectiveMapHeight * resetScale * 2) \div 2
             c == constrainToBounds(centerX, centerY, resetScale, r)
         IN  [x |-> c.x, y |-> c.y, scale |-> resetScale]

resetClick(prev, r) ==
    IF r = NoRect THEN prev
    ELSE LET optimalScale == fitScale(r, 95)
             resetScale == Max(optimalScale, floorZoom)
             centerX == (r.width * PosUnit - effectiveMapWidth * resetScale * 2) \div 2
             centerY == (r.height * PosUnit - effectiveMapHeight * resetScale * 2) \div 2
             c == constrainToBounds(centerX, centerY, resetScale, r)
         IN  [x |-> c.x, y |-> c.y, scale |-> resetScale]

\* ProjectHoverTooltip: where a point of map space is on the screen
tooltipScreen(markerPosition, mapTransform) ==
    [x |-> Round((markerPosition.x + (-455) * PosUnit) * mapTransform.scale, ScaleUnit)
               + mapTransform.x,
     y |-> Round((markerPosition.y + (-521) * PosUnit) * mapTransform.scale, ScaleUnit)
               + mapTransform.y]

----------------------------------------------------------------------------
(* What each state hook holds after event e, delivered to a handler that   *)
(* closes over seen, with cur the state its updates are applied to         *)

\* an event: its kind, its pointer positions, its other argument (deltaY, on a
\* marker or not, which cluster), and whether the handler that received it
\* was the one of the current state (no update was waiting for a render)
Event(kind, touches, arg) == [kind |-> kind, t |-> touches, arg |-> arg, fresh |-> TRUE]
NoEvent == Event("none", <<>>, 0)

TransformAfter(e, seen, cur, r) ==
    CASE e.kind = "wheel" -> handleWheel(seen, cur.transform, r, e.t[1], e.arg)
      [] e.kind = "mousemove" -> handleMouseMove(seen, cur.transform, r, e.t[1])
      [] e.kind = "touchmove" -> handleTouchMove(seen, cur.transform, r, e.t)
      [] e.kind = "zoomin" -> zoomInClick(seen, cur.transform, r)
      [] e.kind = "zoomout" -> zoomOutClick(seen, cur.transform, r)
      [] e.kind = "reset" -> resetClick(cur.transform, r)
      [] e.kind = "cluster" -> handleClusterClick(seen, cur.transform, r, Clusters[e.arg])
      [] OTHER -> cur.transform

\* handleMouseDown, handleMouseUp, handleTouchStart, handleTouchEnd
DraggingAfter(e, seen, cur) ==
    CASE e.kind = "mousedown" -> IF e.arg = 1 THEN cur.isDragging ELSE TRUE
      [] e.kind = "mouseup" -> FALSE
      [] e.kind = "touchstart" ->
            IF Len(e.t) = 1 THEN (IF e.arg = 1 THEN cur.isDragging ELSE TRUE)
            ELSE IF Len(e.t) = 2 THEN FALSE
            ELSE cur.isDragging
      [] e.kind = "touchend" -> FALSE
      [] OTHER -> cur.isDragging

DragStartAfter(e, seen, cur) ==
    IF e.kind \in {"mousedown", "touchstart"} /\ Len(e.t) = 1 /\ e.arg # 1
    THEN [x |-> e.t[1].x * PosUnit - seen.transform.x,
          y |-> e.t[1].y * PosUnit - seen.transform.y]
    ELSE cur.dragStart

TouchDistanceAfter(e, seen, cur, r) ==
    CASE e.kind = "touchstart" ->
            IF Len(e.t) = 2 THEN getTouchDistance(e.t) ELSE cur.lastTouchDistance
      [] e.kind = "touchmove" -> touchMoveDistance(seen, cur.lastTouchDistance, r, e.t)
      [] e.kind = "touchend" -> Null
      [] OTHER -> cur.lastTouchDistance

\* the state of the four hooks, as a render sees it
\* useState<Transform>({ x: 0, y: 0, scale: 1 })
InitialTransform == [x |-> 0, y |-> 0, scale |-> ScaleUnit]

State == [transform |-> transform, isDragging |-> isDragging,
          dragStart |-> dragStart, lastTouchDistance |-> lastTouchDistance]


----------------------------------------------------------------------------
(* The markers, the tooltips and the preview panel.  seenUi is ui as the   *)
(* render of the handler saw it, cur the state its updates are applied to. *)

\* useState of hoveredProject, hoveredCluster, hoveredMarkerPosition,
\* showPreview, previewProject, isMobileTooltipVisible, tappedMarkerId
InitialUi ==
    [hoveredProject |-> NoProject, hoveredCluster |-> NoCluster,
     hoveredMarkerPosition |-> NoPosition, showPreview |-> FALSE,
     previewProject |-> NoProject, isMobileTooltipVisible |-> FALSE,
     tappedMarkerId |-> NoProject]

\* mutant: the project is recorded but the preview panel is not opened
handleMarkerClickNoPreview(cur, project) ==
    [cur EXCEPT !.previewProject = project]

\* setPreviewProject(project); setShowPreview(true)
handleMarkerClick(cur, project) ==
    [cur EXCEPT !.previewProject = project, !.showPreview = TRUE]

\* the four setters that take the marker tooltip away
clearTooltip(cur) ==
    [cur EXCEPT !.tappedMarkerId = NoProject, !.hoveredProject = NoProject,
                !.hoveredMarkerPosition = NoPosition, !.isMobileTooltipVisible = FALSE]

\* mutant: a tap opens the details whenever some marker's tooltip is shown
tapOpensOnAnyTooltip(seenUi, isHover, project) ==
    ~isHover /\ seenUi.tappedMarkerId # NoProject

\* handleMarkerTap opens the details: the marker's tooltip is the one shown
tapOpens(seenUi, isHover, project) == ~isHover /\ seenUi.tappedMarkerId = project
\* handleMarkerTap shows the marker's tooltip and restarts the 4 s timer
tapShows(seenUi, isHover, project) == ~isHover /\ seenUi.tappedMarkerId # project

handleMarkerTap(seenUi, cur, isHover, project) ==
    IF tapOpens(seenUi, isHover, project) THEN handleMarkerClick(cur, project)
    ELSE IF tapShows(seenUi, isHover, project)
    THEN [cur EXCEPT !.tappedMarkerId = project, !.hoveredProject = project,
                     !.hoveredMarkerPosition = MarkerPosition(project),
                     !.isMobileTooltipVisible = TRUE]
    ELSE cur

\* handleMapClick closes the mobile tooltip
mapClickCloses(seenUi, isHover) == ~isHover /\ seenUi.isMobileTooltipVisible

handleMapClick(seenUi, cur, isHover) ==
    IF mapClickCloses(seenUi, isHover) THEN clearTooltip(cur) ELSE cur

\* the hooks of ui after event e
UiAfter(e, seenUi, cur, isHover) ==
    CASE e.kind = "cluster" ->
            \* handleClusterClick: setHoveredCluster(null), and a cluster of one
            \* project opens that project
            LET c == [cur EXCEPT !.hoveredCluster = NoCluster]
            IN  IF Clusters[e.arg].n = 1 THEN handleMarkerClick(c, Clusters[e.arg].p) ELSE c
      [] e.kind = "clusterenter" -> [cur EXCEPT !.hoveredCluster = e.arg]
      [] e.kind = "clusterleave" -> [cur EXCEPT !.hoveredCluster = NoCluster]
      [] e.kind = "markerclick" ->
            \* the marker's onClick, then the map's onClick (handleMapClick)
            handleMapClick(seenUi,
                           IF isHover THEN handleMarkerClick(cur, e.arg) ELSE cur, isHover)
      [] e.kind = "markertouchend" -> handleMarkerTap(seenUi, cur, isHover, e.arg)
      [] e.kind = "markerenter" ->
            IF isHover THEN [cur EXCEPT !.hoveredProject = e.arg,
                                        !.hoveredMarkerPosition = MarkerPosition(e.arg)]
            ELSE cur
      [] e.kind = "markerleave" ->
            IF isHover THEN [cur EXCEPT !.hoveredProject = NoProject,
                                        !.hoveredMarkerPosition = NoPosition]
            ELSE cur
      [] e.kind = "mapclick" -> handleMapClick(seenUi, cur, isHover)
      [] e.kind = "viewdetails" ->
            clearTooltip(handleMarkerClick(cur, seenUi.hoveredProject))
      [] e.kind = "closepreview" ->
            [cur EXCEPT !.showPreview = FALSE, !.previewProject = NoProject]
      [] OTHER -> cur

\* setSelectedProject of the context, called by handleMarkerClick and
\* handleClosePreview
SelectedAfter(e, seenUi, cur, isHover) ==
    CASE e.kind = "cluster" -> IF Clusters[e.arg].n = 1 THEN Clusters[e.arg].p ELSE cur
      [] e.kind = "markerclick" -> IF isHover THEN e.arg ELSE cur
      [] e.kind = "markertouchend" ->
            IF tapOpens(seenUi, isHover, e.arg) THEN e.arg ELSE cur
      [] e.kind = "viewdetails" -> seenUi.hoveredProject
      [] e.kind = "closepreview" -> NoProject
      [] OTHER -> cur

----------------------------------------------------------------------------
(* Timers *)

TimerIds == 1..4
Timer(kind, id) == [kind |-> kind, id |-> id]

\* the id setTimeout returns: one that no pending timer and no ref holds
NewTimerId(pending, held) ==
    CHOOSE id \in TimerIds :
        /\ id \notin { t.id : t \in pending } \cup held
        /\ \A other \in TimerIds :
              other \notin { t.id : t \in pending } \cup held => id <= other

clearTimeout(pending, id) == { t \in pending : t.id # id }

\* the handler of e calls notifyInteraction
Notifies(e, seen) ==
    \/ e.kind \in {"wheel", "touchstart", "touchmove", "zoomin", "zoomout", "reset"}
    \/ e.kind = "mousemove" /\ seen.isDragging

\* the id of the timer notifyInteraction sets
notifyInteractionId(pending, ref, held) ==
    NewTimerId(clearTimeout(pending, ref), held)

\* notifyInteraction: clears the timer of the ref and sets the 300 ms timer
notifyInteraction(pending, ref, held) ==
    clearTimeout(pending, ref)
        \cup { Timer("interactionTimeout", notifyInteractionId(pending, ref, held)) }

\* handleMarkerTap, when it shows a tooltip: clears the timer of the ref and
\* sets the 4 s timer, whose id is not the one just cleared
tapTimers(pending, ref, held) ==
    clearTimeout(pending, ref)
        \cup { Timer("tooltipTimeout", NewTimerId(clearTimeout(pending, ref), held \cup {ref})) }

\* the pending timers after event e
TimersAfter(e, seen, seenUi, isHover) ==
    IF Notifies(e, seen)
    THEN notifyInteraction(timers, interactionTimeoutRef, {tooltipTimeoutRef, clusterTimeout})
    ELSE IF e.kind = "markertouchend" /\ tapShows(seenUi, isHover, e.arg)
    THEN tapTimers(timers, tooltipTimeoutRef, {interactionTimeoutRef, clusterTimeout})
    ELSE IF e.kind \in {"mapclick", "markerclick"} /\ mapClickCloses(seenUi, isHover)
    THEN clearTimeout(timers, tooltipTimeoutRef)
    ELSE timers

InteractionRefAfter(e, seen) ==
    IF Notifies(e, seen)
    THEN notifyInteractionId(timers, interactionTimeoutRef, {tooltipTimeoutRef, clusterTimeout})
    ELSE interactionTimeoutRef

TooltipRefAfter(e, seenUi, isHover) ==
    IF e.kind = "markertouchend" /\ tapShows(seenUi, isHover, e.arg)
    THEN NewTimerId(clearTimeout(timers, tooltipTimeoutRef),
                    {interactionTimeoutRef, clusterTimeout, tooltipTimeoutRef})
    ELSE tooltipTimeoutRef

\* ui and selectedProject, as a render sees them
UiState == [hooks |-> ui, selectedProject |-> selectedProject]

----------------------------------------------------------------------------
(* ProjectProvider (src/unnamed/part_001).  A project is its id and its    *)
(* convocatoria; a list of projects is the set of its elements.            *)

MaxOps == 2

undefined == "undefined"

\* 'Primera Convocatoria 2025'
defaultConvocatoria == "Primera Convocatoria 2025"

\* the projects an administrator saves, the server holds and localStorage kept
ProjectValues == [id : 1..2, convocatoria : {"A", undefined}]
ProjectSets == { S \in SUBSET ProjectValues : \A a, b \in S : a.id = b.id => a = b }

\* what localStorage may hold under 'mexico-social-projects'
StoredLists == { S \in ProjectSets : Cardinality(S) <= 1 }

\* projects of data/projects, the sample data
initialProjectsData == { [id |-> 1, convocatoria |-> "A"] }

\* the list with the project saved: in the place of the one of its id, or added
saveProject(list, project) == { q \in list : q.id # project.id } \cup {project}

\* the list with every project of imported saved
bulkImportProjects(list, imported) ==
    { q \in list : \A project \in imported : project.id # q.id } \cup imported

\* convocatoria: project.convocatoria || 'Primera Convocatoria 2025'
withConvocatoria(list) ==
    { [q EXCEPT !.convocatoria = IF @ \in {undefined, ""} THEN defaultConvocatoria ELSE @] :
        q \in list }

\* the provider has loaded the list the server holds and no call is in flight
ProviderAtRest ==
    /\ projects = initialProjectsData
    /\ server = initialProjectsData
    /\ localStore = {}
    /\ migrated = TRUE
    /\ isLoading = FALSE
    /\ isSyncing = FALSE
    /\ load = "loaded"
    /\ ops = {}
    /\ nOps = 0

\* no project has been loaded and no colour assigned
NoData ==
    /\ filteredProjects = <<>>
    /\ clusters = <<>>
    /\ convocatoriaColorMap = <<>>
    /\ calls = <<>>

----------------------------------------------------------------------------
(* Actions *)

Init ==
    /\ transform = [x |-> 0, y |-> 0, scale |-> ScaleUnit]
    /\ isDragging = FALSE
    /\ dragStart = [x |-> 0, y |-> 0]
    /\ lastTouchDistance = Null
    /\ view = [transform |-> [x |-> 0, y |-> 0, scale |-> ScaleUnit], isDragging |-> FALSE,
               dragStart |-> [x |-> 0, y |-> 0], lastTouchDistance |-> Null]
    /\ rect \in Rects
    /\ centerTimer = TRUE
    /\ ev = NoEvent
    /\ nEvents = 0
    /\ ui = InitialUi
    /\ selectedProject = NoProject
    /\ uiView = [hooks |-> InitialUi, selectedProject |-> NoProject]
    /\ mounted = TRUE
    /\ hoverDevice = TRUE
    /\ interactionTimeoutRef = 0
    /\ tooltipTimeoutRef = 0
    /\ clusterTimeout = 0
    /\ timers = {}
    /\ isInteracting = FALSE
    /\ NoData
    /\ ProviderAtRest

\* mutant: the effect opens the preview of a selected project and never closes it
selectedProjectEffectOpenOnly(cur, selected) ==
    IF selected # NoProject
    THEN [cur EXCEPT !.previewProject = selected, !.showPreview = TRUE]
    ELSE cur

\* the effect of [selectedProject], in the render that sees cur
selectedProjectEffect(cur, selected) ==
    IF selected # NoProject
    THEN [cur EXCEPT !.previewProject = selected, !.showPreview = TRUE]
    ELSE IF cur.showPreview
    THEN [cur EXCEPT !.showPreview = FALSE, !.previewProject = NoProject]
    ELSE cur

\* React renders the component: the handlers now close over the current state
\* and over the current ui; then the effects whose dependencies changed run:
\* the one of hoveredCluster clears its timeout and, for a hovered cluster, sets
\* the 3 s one; the one of selectedProject makes the preview follow it
Render ==
    /\ mounted
    /\ view # State \/ uiView # UiState
    /\ view' = State
    /\ uiView' = UiState
    /\ IF ui.hoveredCluster # uiView.hooks.hoveredCluster
       THEN LET cleared == clearTimeout(timers, clusterTimeout)
                id == NewTimerId(cleared, {interactionTimeoutRef, tooltipTimeoutRef})
            IN  IF ui.hoveredCluster = NoCluster
                THEN timers' = cleared /\ clusterTimeout' = 0
                ELSE timers' = cleared \cup {Timer("clusterTimeout", id)} /\ clusterTimeout' = id
       ELSE UNCHANGED <<timers, clusterTimeout>>
    /\ IF selectedProject # uiView.selectedProject
       THEN ui' = selectedProjectEffect(ui, selectedProject)
       ELSE UNCHANGED ui
    /\ UNCHANGED <<transform, isDragging, dragStart, lastTouchDistance, rect,
                   centerTimer, ev, nEvents, selectedProject, mounted, hoverDevice,
                   interactionTimeoutRef, tooltipTimeoutRef, isInteracting, dataVars, providerVars>>

\* the 100 ms timer of the mount effect fires and runs centerMap
CenterMapTimer ==
    /\ centerTimer
    /\ centerTimer' = FALSE
    /\ transform' = centerMap(transform, rect)
    /\ ev' = [Event("init", <<>>, 0) EXCEPT !.fresh = (view = State)]
    /\ UNCHANGED <<isDragging, dragStart, lastTouchDistance, view, rect, nEvents, mapVars, dataVars, providerVars>>

\* an input event reaches its handler
Deliver(e) ==
    /\ mounted
    /\ nEvents' = nEvents + 1
    /\ ev' = [e EXCEPT !.fresh = (view = State)]
    /\ transform' = TransformAfter(e, view, State, rect)
    /\ isDragging' = DraggingAfter(e, view, State)
    /\ dragStart' = DragStartAfter(e, view, State)
    /\ lastTouchDistance' = TouchDistanceAfter(e, view, State, rect)
    /\ ui' = UiAfter(e, uiView.hooks, ui, hoverDevice)
    /\ selectedProject' = SelectedAfter(e, uiView.hooks, selectedProject, hoverDevice)
    /\ timers' = TimersAfter(e, view, uiView.hooks, hoverDevice)
    /\ interactionTimeoutRef' = InteractionRefAfter(e, view)
    /\ tooltipTimeoutRef' = TooltipRefAfter(e, uiView.hooks, hoverDevice)
    /\ isInteracting' = (Notifies(e, view) \/ isInteracting)
    /\ UNCHANGED <<view, rect, centerTimer, uiView, mounted, hoverDevice, clusterTimeout,
                   dataVars, providerVars>>

MouseDown ==
    \E p \in MousePoints, onMarker \in {0, 1} :
        /\ nEvents < MaxEvents
        /\ Deliver(Event("mousedown", <<p>>, onMarker))

MouseMove ==
    \E p \in MousePoints :
        /\ nEvents < MaxEvents
        /\ Deliver(Event("mousemove", <<p>>, 0))

\* onMouseUp and onMouseLeave
MouseUp ==
    /\ nEvents < MaxEvents
    /\ Deliver(Event("mouseup", <<>>, 0))

Wheel ==
    \E p \in MousePoints, dy \in DeltaYs :
        /\ nEvents < MaxEvents
        /\ Deliver(Event("wheel", <<p>>, dy))

TouchStart ==
    \E tt \in {<<p>> : p \in TouchPoints} \cup TouchPairs, onMarker \in {0, 1} :
        /\ nEvents < MaxEvents
        /\ onMarker = 1 => Len(tt) = 1
        /\ Deliver(Event("touchstart", tt, onMarker))

TouchMove ==
    \E tt \in {<<p>> : p \in TouchPoints} \cup TouchPairs :
        /\ nEvents < MaxEvents
        /\ Deliver(Event("touchmove", tt, 0))

TouchEnd ==
    /\ nEvents < MaxEvents
    /\ Deliver(Event("touchend", <<>>, 0))

ZoomInClick ==
    /\ nEvents < MaxEvents
    /\ Deliver(Event("zoomin", <<>>, 0))

ZoomOutClick ==
    /\ nEvents < MaxEvents
    /\ Deliver(Event("zoomout", <<>>, 0))

ResetClick ==
    /\ nEvents < MaxEvents
    /\ Deliver(Event("reset", <<>>, 0))

\* onClick of a ClusterMarker, which the render draws for the clusters of
\* several projects
ClusterClick ==
    \E i \in Aggregates :
        /\ nEvents < MaxEvents
        /\ Deliver(Event("cluster", <<>>, i))

Next ==
    \/ Render
    \/ CenterMapTimer
    \/ MouseDown
    \/ MouseMove
    \/ MouseUp
    \/ Wheel
    \/ TouchStart
    \/ TouchMove
    \/ TouchEnd
    \/ ZoomInClick
    \/ ZoomOutClick
    \/ ResetClick
    \/ ClusterClick

Spec == Init /\ [][Next]_vars

----------------------------------------------------------------------------
(* constrainToBounds alone: applied once to a translation, a scale and a   *)
(* viewport drawn from grids (with and without a bounding rect, and with    *)
(* viewports larger than the scaled canvas)                                 *)

ClampXs == { -1600000, -300000, -20000, 0, 54600, 62520, 400000 }
ClampYs == { -1100000, -200000, 0, 5326, 62520, 500000 }
ClampScales == { floorZoom, 74, ScaleUnit, 198, maxZoom }

InitClamp ==
    /\ transform \in [x : ClampXs, y : ClampYs, scale : ClampScales]
    /\ rect \in Rects \cup {NoRect}
    /\ isDragging = FALSE
    /\ dragStart = [x |-> 0, y |-> 0]
    /\ lastTouchDistance = Null
    /\ view = [transform |-> InitialTransform, isDragging |-> FALSE,
               dragStart |-> [x |-> 0, y |-> 0], lastTouchDistance |-> Null]
    /\ centerTimer = FALSE
    /\ ev = NoEvent
    /\ nEvents = 0
    /\ ui = InitialUi
    /\ selectedProject = NoProject
    /\ uiView = [hooks |-> InitialUi, selectedProject |-> NoProject]
    /\ mounted = TRUE
    /\ hoverDevice = TRUE
    /\ interactionTimeoutRef = 0
    /\ tooltipTimeoutRef = 0
    /\ clusterTimeout = 0
    /\ timers = {}
    /\ isInteracting = FALSE
    /\ NoData
    /\ ProviderAtRest

ApplyClamp ==
    /\ ev = NoEvent
    /\ ev' = Event("clamp", <<>>, 0)
    /\ LET c == constrainToBounds(transform.x, transform.y, transform.scale, rect)
       IN  transform' = [transform EXCEPT !.x = c.x, !.y = c.y]
    /\ UNCHANGED <<isDragging, dragStart, lastTouchDistance, view, rect, centerTimer,
                   nEvents, mapVars, dataVars, providerVars>>

NextClamp == ApplyClamp

SpecClamp == InitClamp /\ [][NextClamp]_vars


----------------------------------------------------------------------------
(* The markers, the tooltips, the preview, the timers and the teardown of  *)
(* the component, on one viewport, on a device with or without hover       *)

\* handleClusterClick handed a cluster of one project: the handler provides
\* for it, although the render draws such a cluster as a marker
ClusterClickOfOne ==
    \E i \in (1..Len(Clusters)) \ Aggregates :
        /\ nEvents < MaxEvents
        /\ Deliver(Event("cluster", <<>>, i))

ClusterMouseEnter ==
    \E i \in Aggregates :
        /\ nEvents < MaxEvents
        /\ Deliver(Event("clusterenter", <<>>, i))

ClusterMouseLeave ==
    /\ nEvents < MaxEvents
    /\ Deliver(Event("clusterleave", <<>>, 0))

\* a click on a marker: its onClick, then the onClick of the map
MarkerClick ==
    \E project \in Markers :
        /\ nEvents < MaxEvents
        /\ Deliver(Event("markerclick", <<>>, project))

\* onTouchEnd of a marker: handleMarkerTap
MarkerTouchEnd ==
    \E project \in Markers :
        /\ nEvents < MaxEvents
        /\ Deliver(Event("markertouchend", <<>>, project))

MarkerMouseEnter ==
    \E project \in Markers :
        /\ nEvents < MaxEvents
        /\ Deliver(Event("markerenter", <<>>, project))

MarkerMouseLeave ==
    /\ nEvents < MaxEvents
    /\ Deliver(Event("markerleave", <<>>, 0))

\* a click on the map or on the mobile backdrop: handleMapClick
MapClick ==
    /\ nEvents < MaxEvents
    /\ Deliver(Event("mapclick", <<>>, 0))

\* onViewDetails of the marker tooltip of the last render
ViewDetails ==
    /\ nEvents < MaxEvents
    /\ uiView.hooks.hoveredProject # NoProject
    /\ uiView.hooks.hoveredMarkerPosition # NoPosition
    /\ Deliver(Event("viewdetails", <<>>, 0))

\* onClose of the preview panel of the last render: handleClosePreview
ClosePreview ==
    /\ nEvents < MaxEvents
    /\ uiView.hooks.showPreview
    /\ uiView.hooks.previewProject # NoProject
    /\ Deliver(Event("closepreview", <<>>, 0))

\* a pending timer fires: its callback runs
TimerFires(t, kind) ==
    /\ t.kind = kind
    /\ timers' = timers \ {t}
    /\ ev' = [Event(kind, <<>>, t.id) EXCEPT !.fresh = (view = State)]

\* the 300 ms timer of notifyInteraction: onInteractionChange?.(false)
InteractionTimeout ==
    \E t \in timers :
        /\ TimerFires(t, "interactionTimeout")
        /\ isInteracting' = FALSE
        /\ UNCHANGED <<transform, isDragging, dragStart, lastTouchDistance, view, rect,
                       centerTimer, nEvents, ui, selectedProject, uiView, mounted,
                       hoverDevice, interactionTimeoutRef, tooltipTimeoutRef,
                       clusterTimeout, dataVars, providerVars>>

\* the 4 s timer of handleMarkerTap: the four setters (without effect on a
\* component that is no longer mounted)
TooltipTimeout ==
    \E t \in timers :
        /\ TimerFires(t, "tooltipTimeout")
        /\ ui' = IF mounted THEN clearTooltip(ui) ELSE ui
        /\ UNCHANGED <<transform, isDragging, dragStart, lastTouchDistance, view, rect,
                       centerTimer, nEvents, selectedProject, uiView, mounted,
                       hoverDevice, interactionTimeoutRef, tooltipTimeoutRef,
                       clusterTimeout, isInteracting, dataVars, providerVars>>

\* the 3 s timer of the hoveredCluster effect: setHoveredCluster(null)
ClusterTimeout ==
    \E t \in timers :
        /\ TimerFires(t, "clusterTimeout")
        /\ ui' = IF mounted THEN [ui EXCEPT !.hoveredCluster = NoCluster] ELSE ui
        /\ UNCHANGED <<transform, isDragging, dragStart, lastTouchDistance, view, rect,
                       centerTimer, nEvents, selectedProject, uiView, mounted,
                       hoverDevice, interactionTimeoutRef, tooltipTimeoutRef,
                       clusterTimeout, isInteracting, dataVars, providerVars>>

\* the component is torn down: the cleanups of its effects run, which clear
\* the centering timer and the timeout of the hoveredCluster effect
Unmount ==
    /\ mounted
    /\ mounted' = FALSE
    /\ centerTimer' = FALSE
    /\ timers' = clearTimeout(timers, clusterTimeout)
    /\ ev' = [Event("unmount", <<>>, 0) EXCEPT !.fresh = (view = State)]
    /\ UNCHANGED <<transform, isDragging, dragStart, lastTouchDistance, view, rect,
                   nEvents, ui, selectedProject, uiView, hoverDevice,
                   interactionTimeoutRef, tooltipTimeoutRef, clusterTimeout,
                   isInteracting, dataVars, providerVars>>

MapRect == [left |-> 0, top |-> 64, width |-> 1920, height |-> 1016]

InitMap ==
    /\ transform = InitialTransform
    /\ isDragging = FALSE
    /\ dragStart = [x |-> 0, y |-> 0]
    /\ lastTouchDistance = Null
    /\ view = [transform |-> InitialTransform, isDragging |-> FALSE,
               dragStart |-> [x |-> 0, y |-> 0], lastTouchDistance |-> Null]
    /\ rect = MapRect
    /\ centerTimer = TRUE
    /\ ev = NoEvent
    /\ nEvents = 0
    /\ ui = InitialUi
    /\ selectedProject = NoProject
    /\ uiView = [hooks |-> InitialUi, selectedProject |-> NoProject]
    /\ mounted = TRUE
    /\ hoverDevice \in BOOLEAN
    /\ interactionTimeoutRef = 0
    /\ tooltipTimeoutRef = 0
    /\ clusterTimeout = 0
    /\ timers = {}
    /\ isInteracting = FALSE
    /\ NoData
    /\ ProviderAtRest

NextMap ==
    \/ Render
    \/ CenterMapTimer
    \/ ZoomInClick
    \/ ClusterClick
    \/ ClusterClickOfOne
    \/ ClusterMouseEnter
    \/ ClusterMouseLeave
    \/ MarkerClick
    \/ MarkerTouchEnd
    \/ MarkerMouseEnter
    \/ MarkerMouseLeave
    \/ MapClick
    \/ ViewDetails
    \/ ClosePreview
    \/ InteractionTimeout
    \/ TooltipTimeout
    \/ ClusterTimeout
    \/ Unmount

SpecMap == InitMap /\ [][NextMap]_vars

----------------------------------------------------------------------------
(* markerClustering.  The module is imported by the component but is not   *)
(* among the sources; clusterMarkers is the clustering engine as section   *)
(* 4.1 of the specification describes it.  A project's x and y are tenths  *)
(* of a percent (PercentUnit per percent); positions on the canvas and     *)
(* distances are tenths of a pixel (ClusterUnit per pixel).                *)

PercentUnit == 10
ClusterUnit == 10

\* the radius at scale 1, in pixels
baseRadius == 80

\* the position of a project on the canvas of mapWidth x mapHeight
denormalize(project) ==
    [x |-> Round(project.x * mapWidth * ClusterUnit, 100 * PercentUnit),
     y |-> Round(project.y * mapHeight * ClusterUnit, 100 * PercentUnit)]

RECURSIVE SumX(_)
SumX(list) ==
    IF list = <<>> THEN 0 ELSE denormalize(Head(list)).x + SumX(Tail(list))

RECURSIVE SumY(_)
SumY(list) ==
    IF list = <<>> THEN 0 ELSE denormalize(Head(list)).y + SumY(Tail(list))

\* the mean of the members' positions
centroid(list) ==
    [x |-> Round(SumX(list), Len(list)), y |-> Round(SumY(list), Len(list))]

\* the square of the Euclidean distance of two positions
distanceSq(a, b) == (a.x - b.x) * (a.x - b.x) + (a.y - b.y) * (a.y - b.y)

\* radius = baseRadius / scale
clusterRadius(scale) == Round(baseRadius * ClusterUnit * ScaleUnit, scale)

withinRadiusDoubled(d2, scale) == d2 <= 4 * clusterRadius(scale) * clusterRadius(scale)

\* distance <= radius
withinRadius(d2, scale) == d2 <= clusterRadius(scale) * clusterRadius(scale)

Cluster(id, list) ==
    LET c == centroid(list)
    IN  [id |-> id, x |-> c.x, y |-> c.y, projects |-> list]

\* the cluster whose centroid is nearest to p, the earlier one of equidistant ones
nearest(cs, p) ==
    CHOOSE i \in 1..Len(cs) :
        \A j \in 1..Len(cs) :
            \/ distanceSq(p, cs[i]) < distanceSq(p, cs[j])
            \/ distanceSq(p, cs[i]) = distanceSq(p, cs[j]) /\ i <= j

joinClusterAlone(cluster, project) == Cluster(cluster.id, <<project>>)

\* append the point to the cluster and recompute its centroid
joinCluster(cluster, project) == Cluster(cluster.id, Append(cluster.projects, project))

\* one step of the pass: the point joins the nearest cluster if that is within
\* the radius and starts a new cluster otherwise
addPoint(cs, project, scale) ==
    LET p == denormalize(project)
        i == nearest(cs, p)
    IN  IF cs # <<>> /\ withinRadius(distanceSq(p, cs[i]), scale)
        THEN [cs EXCEPT ![i] = joinCluster(@, project)]
        ELSE Append(cs, Cluster(Len(cs) + 1, <<project>>))

RECURSIVE clusterFrom(_, _, _)
clusterFrom(cs, list, scale) ==
    IF list = <<>> THEN cs
    ELSE clusterFrom(addPoint(cs, Head(list), scale), Tail(list), scale)

clusterMarkers(list, scale) == clusterFrom(<<>>, list, scale)

----------------------------------------------------------------------------
(* convocatoriaColors (src/unnamed/part_000).  A label is a string; the    *)
(* map is a function from the labels it holds to colour indexes.           *)

Convocatorias == {"A", "B", "C"}

\* CONVOCATORIA_COLORS.length
paletteLength == 10

\* the strings of the model in the order Array.prototype.sort gives them
CodeUnitOrder == <<"", "A", "B", "C">>

\* !convocatoria
Falsy(convocatoria) == convocatoria = undefined \/ convocatoria = ""

\* the lookup: the colour index returned and the map left behind
getConvocatoriaColor(map, convocatoria) ==
    IF Falsy(convocatoria) THEN [color |-> 0, map |-> map]
    ELSE IF convocatoria \in DOMAIN map THEN [color |-> map[convocatoria], map |-> map]
    ELSE [color |-> Cardinality(DOMAIN map) % paletteLength,
          map |-> map @@ (convocatoria :> Cardinality(DOMAIN map) % paletteLength)]

\* [...new Set(convocatorias)].sort()
sorted(convocatorias) == SelectSeq(CodeUnitOrder, LAMBDA c : c \in convocatorias)

RECURSIVE registerFrom(_, _, _)
registerFrom(map, list, index) ==
    IF index > Len(list) THEN map
    ELSE registerFrom(IF list[index] \in DOMAIN map THEN map
                      ELSE map @@ (list[index] :> (index - 1) % paletteLength),
                      list, index + 1)

RECURSIVE registerOverwritingFrom(_, _, _)
registerOverwritingFrom(map, list, index) ==
    IF index > Len(list) THEN map
    ELSE registerOverwritingFrom((list[index] :> (index - 1) % paletteLength) @@ map,
                                 list, index + 1)

registerConvocatoriasOverwriting(map, convocatorias) ==
    registerOverwritingFrom(map, sorted(convocatorias), 1)

\* the map after registerConvocatorias(convocatorias)
registerConvocatorias(map, convocatorias) == registerFrom(map, sorted(convocatorias), 1)

----------------------------------------------------------------------------
(* The data of the map: filteredProjects arrives from the project context, *)
(* the render computes the clusters for the current scale and looks up the *)
(* colour of every project drawn as a marker, and the effect of            *)
(* filteredProjects registers the labels.                                  *)

MaxPoints == 4
MaxProjects == 2

ClusterScales == { ScaleUnit, 120, maxZoom }

\* x, y (tenths of a percent) and convocatoria of the projects of the model
ProjectInputs ==
    { [x |-> 100, y |-> 100, convocatoria |-> "A"],
      [x |-> 130, y |-> 100, convocatoria |-> undefined],
      [x |-> 150, y |-> 100, convocatoria |-> "B"],
      [x |-> 80, y |-> 100, convocatoria |-> "A"],
      [x |-> 105, y |-> 102, convocatoria |-> "B"],
      [x |-> 900, y |-> 900, convocatoria |-> "C"] }

Project(id, input) ==
    [id |-> id, x |-> input.x, y |-> input.y, convocatoria |-> input.convocatoria]

\* the lists of max projects at most
ProjectLists(max) ==
    UNION { { [i \in 1..n |-> Project(i, f[i])] : f \in [1..n -> ProjectInputs] } :
            n \in 0..max }

\* the render's lookups: one for each cluster of a single project, in order
RECURSIVE renderMarkers(_, _)
renderMarkers(map, cs) ==
    IF cs = <<>> THEN map
    ELSE renderMarkers(IF Len(Head(cs).projects) > 1 THEN map
                       ELSE getConvocatoriaColor(map, Head(cs).projects[1].convocatoria).map,
                       Tail(cs))

\* filteredProjects.map(p => p.convocatoria).filter(c => !!c)
convocatoriasOf(list) ==
    { list[i].convocatoria : i \in DOMAIN list } \ { undefined, "" }

\* the variables of the controller and of the markers at rest
Idle ==
    /\ isDragging = FALSE
    /\ dragStart = [x |-> 0, y |-> 0]
    /\ lastTouchDistance = Null
    /\ rect = MapRect
    /\ centerTimer = FALSE
    /\ ev = NoEvent
    /\ nEvents = 0
    /\ ui = InitialUi
    /\ selectedProject = NoProject
    /\ uiView = [hooks |-> InitialUi, selectedProject |-> NoProject]
    /\ mounted = TRUE
    /\ hoverDevice = TRUE
    /\ interactionTimeoutRef = 0
    /\ tooltipTimeoutRef = 0
    /\ clusterTimeout = 0
    /\ timers = {}
    /\ isInteracting = FALSE

InitData ==
    /\ transform \in { [x |-> 0, y |-> 0, scale |-> s] : s \in ClusterScales }
    /\ view = [transform |-> transform, isDragging |-> FALSE,
               dragStart |-> [x |-> 0, y |-> 0], lastTouchDistance |-> Null]
    /\ Idle
    /\ NoData
    /\ ProviderAtRest

\* the context hands over a new filteredProjects: the component renders, then
\* the effect of filteredProjects runs
ProjectsChange(list) ==
    /\ filteredProjects' = list
    /\ clusters' = clusterMarkers(list, transform.scale)
    /\ convocatoriaColorMap' =
           registerConvocatorias(renderMarkers(convocatoriaColorMap, clusters'),
                                 convocatoriasOf(list))
    /\ UNCHANGED <<transform, isDragging, dragStart, lastTouchDistance, view, rect,
                   centerTimer, ev, nEvents, mapVars, calls,
                   providerVars>>

\* the projects fetched at start-up arrive
ProjectsLoaded ==
    /\ filteredProjects = <<>>
    /\ \E list \in ProjectLists(MaxProjects) \ {<<>>} : ProjectsChange(list)

\* a project is added
ProjectAdded ==
    /\ Len(filteredProjects) < MaxProjects
    /\ \E input \in ProjectInputs :
           ProjectsChange(Append(filteredProjects, Project(Len(filteredProjects) + 1, input)))

\* all projects are cleared
ProjectsCleared ==
    /\ filteredProjects # <<>>
    /\ ProjectsChange(<<>>)

\* the scale changes: the component renders with the clusters of the new scale
ScaleChange ==
    \E s \in ClusterScales \ {transform.scale} :
        /\ transform' = [transform EXCEPT !.scale = s]
        /\ view' = [view EXCEPT !.transform = transform']
        /\ clusters' = clusterMarkers(filteredProjects, s)
        /\ convocatoriaColorMap' = renderMarkers(convocatoriaColorMap, clusters')
        /\ ev' = Event("scale", <<>>, s)
        /\ UNCHANGED <<isDragging, dragStart, lastTouchDistance, rect, centerTimer,
                       nEvents, mapVars, filteredProjects, calls,
                   providerVars>>

NextData ==
    \/ ProjectsLoaded
    \/ ProjectAdded
    \/ ProjectsCleared
    \/ ScaleChange

SpecData == InitData /\ [][NextData]_vars

----------------------------------------------------------------------------
(* convocatoriaColors by itself: its exported functions are called in any  *)
(* order; calls records the calls made since the map was last empty.       *)

MaxCalls == 3

Call(op, convocatoria, convocatorias, color) ==
    [op |-> op, convocatoria |-> convocatoria, convocatorias |-> convocatorias, color |-> color]

InitColors ==
    /\ transform = InitialTransform
    /\ view = [transform |-> InitialTransform, isDragging |-> FALSE,
               dragStart |-> [x |-> 0, y |-> 0], lastTouchDistance |-> Null]
    /\ Idle
    /\ NoData
    /\ ProviderAtRest

\* getConvocatoriaColor(convocatoria)
GetConvocatoriaColor ==
    /\ Len(calls) < MaxCalls
    /\ \E convocatoria \in Convocatorias \cup { undefined, "" } :
           LET r == getConvocatoriaColor(convocatoriaColorMap, convocatoria)
           IN  /\ convocatoriaColorMap' = r.map
               /\ calls' = Append(calls, Call("get", convocatoria, {}, r.color))
    /\ UNCHANGED <<transform, isDragging, dragStart, lastTouchDistance, view, rect,
                   centerTimer, ev, nEvents, mapVars, filteredProjects, clusters,
                   providerVars>>

\* registerConvocatorias(convocatorias), for an array with these elements
RegisterConvocatorias ==
    /\ Len(calls) < MaxCalls
    /\ \E convocatorias \in SUBSET (Convocatorias \cup { "" }) :
           /\ convocatoriaColorMap' = registerConvocatorias(convocatoriaColorMap, convocatorias)
           /\ calls' = Append(calls, Call("register", undefined, convocatorias, Null))
    /\ UNCHANGED <<transform, isDragging, dragStart, lastTouchDistance, view, rect,
                   centerTimer, ev, nEvents, mapVars, filteredProjects, clusters,
                   providerVars>>

\* resetConvocatoriaColorMap()
ResetConvocatoriaColorMap ==
    /\ calls # <<>>
    /\ convocatoriaColorMap' = <<>>
    /\ calls' = <<>>
    /\ UNCHANGED <<transform, isDragging, dragStart, lastTouchDistance, view, rect,
                   centerTimer, ev, nEvents, mapVars, filteredProjects, clusters,
                   providerVars>>

NextColors ==
    \/ GetConvocatoriaColor
    \/ RegisterConvocatorias
    \/ ResetConvocatoriaColorMap

SpecColors == InitColors /\ [][NextColors]_vars

----------------------------------------------------------------------------
(* The clustering engine by itself: the component has rendered a list of   *)
(* projects at some scale; the scale changes.                              *)

InitCluster ==
    /\ transform \in { [x |-> 0, y |-> 0, scale |-> s] : s \in ClusterScales }
    /\ view = [transform |-> transform, isDragging |-> FALSE,
               dragStart |-> [x |-> 0, y |-> 0], lastTouchDistance |-> Null]
    /\ Idle
    /\ filteredProjects \in ProjectLists(MaxPoints)
    /\ clusters = clusterMarkers(filteredProjects, transform.scale)
    /\ convocatoriaColorMap =
           registerConvocatorias(renderMarkers(<<>>, clusters), convocatoriasOf(filteredProjects))
    /\ calls = <<>>
    /\ ProviderAtRest

NextCluster == ScaleChange

SpecCluster == InitCluster /\ [][NextCluster]_vars

----------------------------------------------------------------------------
(* The calls of ProjectProvider.  An async function runs to its first      *)
(* await in one step; each later step is the outcome of the request it     *)
(* awaits, and what the function does until its next await.  ops holds the *)
(* calls of addProject, removeProject and clearAllProjects that have not   *)
(* reached the end of their finally block.  The model makes these calls on *)
(* a list that loadProjects has set.                                       *)

Op(id, kind, project, pc, fetched) ==
    [id |-> id, kind |-> kind, project |-> project, pc |-> pc, fetched |-> fetched]

\* the controller, the markers and the data of the map stay as they are
MapUnchanged ==
    UNCHANGED <<transform, isDragging, dragStart, lastTouchDistance, view, rect,
                centerTimer, ev, nEvents, ui, uiView, mounted, hoverDevice,
                interactionTimeoutRef, tooltipTimeoutRef, clusterTimeout, timers,
                isInteracting, dataVars>>

InitProvider ==
    /\ transform = InitialTransform
    /\ view = [transform |-> InitialTransform, isDragging |-> FALSE,
               dragStart |-> [x |-> 0, y |-> 0], lastTouchDistance |-> Null]
    /\ Idle
    /\ NoData
    /\ projects = {}
    /\ server \in ProjectSets
    /\ localStore \in StoredLists
    /\ migrated \in BOOLEAN
    /\ isLoading = TRUE
    /\ isSyncing = FALSE
    /\ load = IF migrated THEN "fetch" ELSE "migrate"
    /\ ops = {}
    /\ nOps = 0

\* loadProjects, from await migrateFromLocalStorage() to the fetch: the bulk
\* import of the stored projects succeeds or fails, and the flag is set
migrateFromLocalStorage ==
    /\ load = "migrate"
    /\ \E ok \in BOOLEAN : server' = IF ok THEN bulkImportProjects(server, localStore) ELSE server
    /\ migrated' = TRUE
    /\ load' = "fetch"
    /\ UNCHANGED <<projects, localStore, isLoading, isSyncing, ops, nOps, selectedProject>>
    /\ MapUnchanged

\* loadProjects, from await api.fetchProjects() on
loadProjects ==
    /\ load = "fetch"
    /\ \E ok \in BOOLEAN :
           IF ok /\ server # {}
           THEN /\ projects' = withConvocatoria(server)
                /\ load' = "loaded"
                /\ isLoading' = FALSE
           ELSE IF ok
           THEN /\ load' = "sample"
                /\ UNCHANGED <<projects, isLoading>>
           ELSE /\ projects' = withConvocatoria(initialProjectsData)
                /\ load' = "fallback"
                /\ isLoading' = FALSE
    /\ UNCHANGED <<server, localStore, migrated, isSyncing, ops, nOps, selectedProject>>
    /\ MapUnchanged

\* initializeWithSampleData, and the finally block of loadProjects
initializeWithSampleData ==
    /\ load = "sample"
    /\ \E ok \in BOOLEAN :
           IF ok
           THEN /\ server' = bulkImportProjects(server, initialProjectsData)
                /\ projects' = server'
                /\ load' = "loaded"
           ELSE /\ server' = server
                /\ projects' = initialProjectsData
                /\ load' = "fallback"
    /\ isLoading' = FALSE
    /\ UNCHANGED <<localStore, migrated, isSyncing, ops, nOps, selectedProject>>
    /\ MapUnchanged

\* a call may be made
MayCall == load \in {"loaded", "fallback"} /\ nOps < MaxOps

\* addProject(project), to await api.saveProject(project)
addProject ==
    /\ MayCall
    /\ \E project \in ProjectValues :
           /\ projects' = saveProject(projects, project)
           /\ ops' = ops \cup { Op(nOps + 1, "add", project, "call", {}) }
    /\ isSyncing' = TRUE
    /\ nOps' = nOps + 1
    /\ UNCHANGED <<server, localStore, migrated, isLoading, load, selectedProject>>
    /\ MapUnchanged

\* removeProject(projectId), to await api.deleteProject(projectId); the
\* selectedProject it compares is the one of the last render
removeProject ==
    /\ MayCall
    /\ \E project \in { q \in ProjectValues : q.convocatoria = undefined } :
           /\ projects' = { q \in projects : q.id # project.id }
           /\ selectedProject' =
                  IF uiView.selectedProject = project.id THEN NoProject ELSE selectedProject
           /\ ops' = ops \cup { Op(nOps + 1, "remove", project, "call", {}) }
    /\ isSyncing' = TRUE
    /\ nOps' = nOps + 1
    /\ UNCHANGED <<server, localStore, migrated, isLoading, load>>
    /\ MapUnchanged

\* clearAllProjects(), to await api.clearAllProjects()
clearAllProjects ==
    /\ MayCall
    /\ projects' = {}
    /\ selectedProject' = NoProject
    /\ ops' = ops \cup { Op(nOps + 1, "clear", [id |-> 0, convocatoria |-> undefined], "call", {}) }
    /\ isSyncing' = TRUE
    /\ nOps' = nOps + 1
    /\ UNCHANGED <<server, localStore, migrated, isLoading, load>>
    /\ MapUnchanged

\* the server answers saveProject, deleteProject or clearAllProjects: on
\* success the call ends with its finally block, on failure it awaits
\* api.fetchProjects()
ServerCall ==
    /\ \E op \in ops : \E ok \in BOOLEAN :
           /\ op.pc = "call"
           /\ IF ok
              THEN /\ server' = CASE op.kind = "add" -> saveProject(server, op.project)
                                  [] op.kind = "remove" -> { q \in server : q.id # op.project.id }
                                  [] OTHER -> {}
                   /\ ops' = ops \ {op}
                   /\ isSyncing' = FALSE
              ELSE /\ ops' = (ops \ {op}) \cup { [op EXCEPT !.pc = "refetch"] }
                   /\ UNCHANGED <<server, isSyncing>>
    /\ UNCHANGED <<projects, localStore, migrated, isLoading, load, nOps, selectedProject>>
    /\ MapUnchanged

\* the server answers the fetchProjects of a catch block: with its list, which
\* is on its way to the client, or with an error, which ends the call
Refetch ==
    /\ \E op \in ops : \E ok \in BOOLEAN :
           /\ op.pc = "refetch"
           /\ IF ok
              THEN /\ ops' = (ops \ {op}) \cup { [op EXCEPT !.pc = "fetched", !.fetched = server] }
                   /\ UNCHANGED isSyncing
              ELSE /\ ops' = ops \ {op}
                   /\ isSyncing' = FALSE
    /\ UNCHANGED <<projects, server, localStore, migrated, isLoading, load, nOps, selectedProject>>
    /\ MapUnchanged

\* the fetched list arrives: setProjects(serverProjects), and the finally block
RefetchApplied ==
    /\ \E op \in ops :
           /\ op.pc = "fetched"
           /\ projects' = op.fetched
           /\ ops' = ops \ {op}
    /\ isSyncing' = FALSE
    /\ UNCHANGED <<server, localStore, migrated, isLoading, load, nOps, selectedProject>>
    /\ MapUnchanged

NextProvider ==
    \/ migrateFromLocalStorage
    \/ loadProjects
    \/ initializeWithSampleData
    \/ addProject
    \/ removeProject
    \/ clearAllProjects
    \/ ServerCall
    \/ Refetch
    \/ RefetchApplied

SpecProvider == InitProvider /\ [][NextProvider]_vars

----------------------------------------------------------------------------
(* The preview panel and the selection of the context.  A click or a tap   *)
(* is a discrete event: React renders and runs the effects before the next *)
(* one is handled, so these events find the state settled.  The answers of *)
(* the server come at any time.                                            *)

\* the last render saw the current state, and its effects have run
Settled == view = State /\ uiView = UiState

\* setSelectedProject of the context, called by another component
SetSelectedProject ==
    /\ nEvents < MaxEvents
    /\ mounted
    /\ \E project \in Markers \cup {NoProject} :
           /\ selectedProject' = project
           /\ ev' = [Event("select", <<>>, project) EXCEPT !.fresh = (view = State)]
    /\ nEvents' = nEvents + 1
    /\ UNCHANGED <<transform, isDragging, dragStart, lastTouchDistance, view, rect,
                   centerTimer, ui, uiView, mounted, hoverDevice,
                   interactionTimeoutRef, tooltipTimeoutRef, clusterTimeout, timers,
                   isInteracting, dataVars, providerVars>>

NextPreview ==
    \/ Render
    \/ Settled /\ MarkerClick
    \/ Settled /\ MarkerTouchEnd
    \/ Settled /\ ClusterClickOfOne
    \/ Settled /\ ViewDetails
    \/ Settled /\ ClosePreview
    \/ Settled /\ SetSelectedProject
    \/ Settled /\ removeProject
    \/ Settled /\ clearAllProjects
    \/ ServerCall
    \/ Refetch
    \/ RefetchApplied

SpecPreview == InitMap /\ [][NextPreview]_vars

----------------------------------------------------------------------------
(* Claims *)

Initialized == ~centerTimer
Measured == rect # NoRect /\ rect.width > 0 /\ rect.height > 0

\* C1: once centerMap has run, with a measured viewport (W, H), the scale is
\* always within [minScale, maxScale], minScale = max(0.6, 0.9 * min(W / 2183,
\* H / 1301)) and maxScale = 3.
C1_ScaleInRange ==
    (Initialized /\ Measured) =>
        /\ transform.scale >= Max(floorZoom, fitScale(rect, 90))
        /\ transform.scale <= maxZoom

\* C5: with no bounding rect, or one of zero width or height, no operation
\* changes the Transform: it stays what useState gave it.
C5_NoOpWithoutViewport ==
    (rect = NoRect \/ rect.width = 0 \/ rect.height = 0) => transform = InitialTransform

\* the translation that centers the effective canvas at scale s on one axis
Centered(viewportSize, effectiveSize, s) ==
    (viewportSize * PosUnit - effectiveSize * s * 2) \div 2

\* C6 as stated: initialize sets scale = max(0.6, 0.95 * min(W / 2183, H / 1301))
\* and the translation that centers the effective canvas, for every viewport.
C6_InitCentered ==
    ev.kind = "init" =>
        /\ transform.scale = Max(floorZoom, fitScale(rect, 95))
        /\ transform.x = Centered(rect.width, 2183, transform.scale)
        /\ transform.y = Centered(rect.height, 1301, transform.scale)

\* C6 amended: initialize sets that scale, and on each axis the centering
\* translation when the viewport is no larger than the scaled canvas
\* (W <= 3093 * scale, H <= 2343 * scale), else the upper pan bound
\* (455 * scale, 521 * scale).
C6_InitClampedCenter ==
    ev.kind = "init" =>
        /\ transform.scale = Max(floorZoom, fitScale(rect, 95))
        /\ transform.x = IF rect.width * ScaleUnit <= 3093 * transform.scale
                         THEN Centered(rect.width, 2183, transform.scale)
                         ELSE 455 * transform.scale * 2
        /\ transform.y = IF rect.height * ScaleUnit <= 2343 * transform.scale
                         THEN Centered(rect.height, 1301, transform.scale)
                         ELSE 521 * transform.scale * 2

C6_Witness ==
    /\ ev.kind = "init"
    /\ Measured
    /\ rect.width * ScaleUnit > 3093 * transform.scale
    /\ transform.x = 455 * transform.scale * 2
    /\ transform.y = Centered(rect.height, 1301, transform.scale)

\* C7: reset leaves exactly the Transform that initialize produces for the
\* same viewport, whatever the Transform was before.
C7_ResetIsInitialize ==
    ev.kind = "reset" => transform = centerMap(InitialTransform, rect)

C7_Witness ==
    /\ ev.kind = "reset"
    /\ Measured
    /\ view.transform.scale # transform.scale
    /\ view.transform.scale # ScaleUnit

\* an event was delivered to its handler in this step (or the centering timer fired)
Delivered == nEvents' = nEvents + 1 \/ (centerTimer /\ ~centerTimer')

\* event e, handled by a handler that closes over seen, reaches a setTransform
IsDrag(e, seen) ==
    \/ e.kind = "mousemove" /\ seen.isDragging
    \/ e.kind = "touchmove" /\ Len(e.t) = 1 /\ seen.isDragging
IsPinch(e, seen) ==
    /\ e.kind = "touchmove" /\ Len(e.t) = 2
    /\ Truthy(seen.lastTouchDistance) /\ Truthy(getTouchDistance(e.t))
Mutates(e, seen) ==
    \/ e.kind \in {"init", "wheel", "zoomin", "zoomout", "reset"}
    \/ e.kind = "cluster" /\ Clusters[e.arg].n >= 2
    \/ IsDrag(e, seen)
    \/ IsPinch(e, seen)

\* the pan bounds of the claim, for translation t (position units) and scale s
UpperBoundsHold(t, s) == t.x <= 455 * s * 2 /\ t.y <= 521 * s * 2
LowerXHolds(t, s) == rect.width * PosUnit - 2638 * s * 2 <= t.x
LowerYHolds(t, s) == rect.height * PosUnit - 1822 * s * 2 <= t.y

FocalPoint(e) ==
    IF e.kind = "wheel"
    THEN [x |-> (e.t[1].x - rect.left) * PosUnit, y |-> (e.t[1].y - rect.top) * PosUnit]
    ELSE [x |-> ((e.t[1].x + e.t[2].x) * PosUnit) \div 2 - rect.left * PosUnit,
          y |-> ((e.t[1].y + e.t[2].y) * PosUnit) \div 2 - rect.top * PosUnit]

\* a / tol = b / tol to within half a position unit
Near(a, b, tol) == 2 * (IF a >= b THEN a - b ELSE b - a) <= tol

\* C3: a wheel or pinch zoom with focal point p, from the Transform old that is
\* on the screen to scale ns, clamps and stores a translation raw with
\* (p - raw) / ns = (p - old.xy) / old.scale on both axes, to within the rounding
\* of one position unit: the map point under p stays under p before clamping.
C3_ZoomAnchored ==
    [][ (Delivered /\ (ev'.kind = "wheel" \/ IsPinch(ev', view))) =>
            LET p == FocalPoint(ev')
                old == view.transform
                ns == transform'.scale
                raw == zoomAnchor(old, p.x, p.y, ns)
                c == constrainToBounds(raw.x, raw.y, ns, rect)
            IN  /\ Near((p.x - raw.x) * old.scale, (p.x - old.x) * ns, old.scale)
                /\ Near((p.y - raw.y) * old.scale, (p.y - old.y) * ns, old.scale)
                /\ transform'.x = c.x /\ transform'.y = c.y
      ]_vars

\* a zoom that changed the scale and whose translation was not clamped
C3_Witness ==
    /\ Measured
    /\ ev.kind \in {"wheel", "touchmove"}
    /\ transform.scale # view.transform.scale
    /\ transform.x < 455 * transform.scale * 2
    /\ transform.x > rect.width * PosUnit - 2638 * transform.scale * 2
    /\ transform.y < 521 * transform.scale * 2
    /\ transform.y > rect.height * PosUnit - 1822 * transform.scale * 2
    /\ transform.x # view.transform.x

Gestures == {"wheel", "mousemove", "touchmove", "zoomin", "zoomout"}

\* C4: with a measured viewport, after initialization, the Transform after a
\* gesture event that follows another gesture event (itself handled on the
\* current state) is that event's update applied to the Transform and drag
\* state the preceding event produced.
C4_NoLostUpdate ==
    [][ (Initialized /\ Measured /\ nEvents' = nEvents + 1
         /\ ev.kind \in Gestures /\ ev.fresh /\ ev'.kind \in Gestures) =>
            transform' = TransformAfter(ev', State, State, rect)
      ]_vars

\* C8: a drag (after initialization, with a measured viewport, following an
\* event handled on the current state) leaves the scale as it is and stores
\* the dragged position clamped for the scale the Transform holds when the
\* update is applied.
C8_DragClampedForStoredScale ==
    [][ (Initialized /\ Measured /\ ev.kind # "init" /\ ev.fresh /\ Delivered
         /\ IsDrag(ev', view)) =>
            LET c == constrainToBounds(ev'.t[1].x * PosUnit - view.dragStart.x,
                                       ev'.t[1].y * PosUnit - view.dragStart.y,
                                       transform.scale, rect)
            IN  /\ transform'.scale = transform.scale
                /\ transform'.x = c.x /\ transform'.y = c.y
      ]_vars

\* C9: a click on a cluster of two or more sets the scale to min(2.5 * the
\* scale on the screen, 3) and the translation to the clamped value of the one
\* that puts the centroid at the viewport's center under the tooltip's mapping;
\* when clamping alters nothing, the tooltip's mapping puts the centroid at
\* exactly (W / 2, H / 2).
C9_ClusterZoom ==
    [][ (Delivered /\ ev'.kind = "cluster" /\ Clusters[ev'.arg].n >= 2) =>
            LET cl == Clusters[ev'.arg]
                ns == Min(Round(view.transform.scale * 5, 2), 3 * ScaleUnit)
                atOrigin == tooltipScreen(cl, [x |-> 0, y |-> 0, scale |-> ns])
                target == [x |-> (rect.width * PosUnit) \div 2 - atOrigin.x,
                           y |-> (rect.height * PosUnit) \div 2 - atOrigin.y]
                c == constrainToBounds(target.x, target.y, ns, rect)
            IN  /\ transform' = [x |-> c.x, y |-> c.y, scale |-> ns]
                /\ (c = target) =>
                      tooltipScreen(cl, transform') =
                          [x |-> (rect.width * PosUnit) \div 2,
                           y |-> (rect.height * PosUnit) \div 2]
      ]_vars

\* a cluster click whose centering translation was not clamped
C9_Witness ==
    /\ Measured
    /\ ev.kind = "cluster"
    /\ Clusters[ev.arg].n >= 2
    /\ view.transform.scale # transform.scale
    /\ tooltipScreen(Clusters[ev.arg], transform) =
           [x |-> (rect.width * PosUnit) \div 2, y |-> (rect.height * PosUnit) \div 2]

\* C10: constrainToBounds applied to its own output, with the same scale and
\* viewport, returns that output, also when the viewport is larger than the
\* scaled canvas and when there is no bounding rect.
C10_ClampIdempotent ==
    ev.kind = "clamp" =>
        LET c == constrainToBounds(transform.x, transform.y, transform.scale, rect)
        IN  c.x = transform.x /\ c.y = transform.y

\* clamped on a viewport wider than the scaled canvas (minX > maxX)
C10_Witness ==
    /\ ev.kind = "clamp"
    /\ rect # NoRect
    /\ rect.width * PosUnit - 2638 * transform.scale * 2 > 455 * transform.scale * 2
    /\ transform.x = 455 * transform.scale * 2
    /\ transform.y = rect.height * PosUnit - 1822 * transform.scale * 2

\* the translation that puts the point p of the canvas (map space, as the
\* markers' container places it) at the centre of the viewport r at scale s:
\* tooltipScreen(p, [x, y, scale]) = (W / 2, H / 2)
CenteringTranslation(p, s, r) ==
    [x |-> (r.width * PosUnit) \div 2 - Round((p.x - 455 * PosUnit) * s, ScaleUnit),
     y |-> (r.height * PosUnit) \div 2 - Round((p.y - 521 * PosUnit) * s, ScaleUnit)]

\* corners, edge midpoint and centre of the 2638 x 1822 canvas
CanvasPoints ==
    { [x |-> px * PosUnit, y |-> py * PosUnit] :
        px \in {0, 1319, 2638}, py \in {0, 911, 1822} }

\* C11: for every point of the canvas and the scale in use (within range), the
\* translation that centres the point in the viewport is one the pan boundaries
\* allow: constrainToBounds leaves it as it is.
C11_AnyPointCenterable ==
    (Initialized /\ Measured
        /\ absoluteMinZoom(rect) <= transform.scale /\ transform.scale <= maxZoom) =>
        \A p \in CanvasPoints :
            LET t == CenteringTranslation(p, transform.scale, rect)
            IN  constrainToBounds(t.x, t.y, transform.scale, rect) = t

\* C14: no Transform operation divides by zero: the scale is positive in every
\* state, the scale a wheel or pinch zoom divides by is positive, and a pinch
\* computes its scale factor only from a recorded touch distance that is not 0.
C14_NoDivisionByZero ==
    [][ /\ transform'.scale > 0 /\ view'.transform.scale > 0
        /\ (/\ Delivered
            /\ ev'.kind \in {"wheel", "touchmove"}
            /\ (transform' # transform \/ lastTouchDistance' # lastTouchDistance))
           => /\ view.transform.scale > 0
              /\ (ev'.kind = "touchmove" /\ Len(ev'.t) = 2)
                    => (view.lastTouchDistance # Null /\ view.lastTouchDistance > 0) ]_vars

\* two touches on the same spot were recorded (distance 0) and the next
\* two-touch move, with the touches apart, was ignored
C14_Witness ==
    /\ ev.kind = "touchmove" /\ Len(ev.t) = 2
    /\ getTouchDistance(ev.t) > 0
    /\ view.lastTouchDistance = 0
    /\ lastTouchDistance = 0
    /\ transform = view.transform

\* the marker events: onClick, onTouchEnd, onMouseEnter, onMouseLeave
MarkerEvents == {"markerclick", "markertouchend", "markerenter", "markerleave"}

\* the project is selected in the context and shown in the preview panel
Opened(project) ==
    /\ selectedProject' = project
    /\ ui'.previewProject = project
    /\ ui'.showPreview

\* C12: a cluster of one project is a marker.  handleClusterClick handed such
\* a cluster, and a click on its marker (on a device with hover, where a click
\* is what opens a marker), select and preview that project; these and every
\* other marker event leave the Transform as it is; and the hovered cluster,
\* for which the cluster tooltip is drawn, is never a cluster of one project.
C12_SingletonIsMarker ==
    [][ /\ (Delivered /\ ev'.kind = "cluster" /\ Clusters[ev'.arg].n = 1) =>
              /\ transform' = transform
              /\ Opened(Clusters[ev'.arg].p)
              /\ ui'.hoveredCluster = NoCluster
        /\ (Delivered /\ ev'.kind = "markerclick" /\ hoverDevice) =>
              /\ transform' = transform
              /\ Opened(ev'.arg)
        /\ (Delivered /\ ev'.kind \in MarkerEvents) => transform' = transform
        /\ ui'.hoveredCluster # NoCluster => Clusters[ui'.hoveredCluster].n > 1 ]_vars

\* a marker was clicked after the map had been centred and zoomed, and its
\* project is selected and previewed
C12_Witness ==
    /\ ev.kind = "markerclick"
    /\ hoverDevice
    /\ Initialized
    /\ transform.scale > centerMap(InitialTransform, rect).scale
    /\ selectedProject = ev.arg
    /\ ui.previewProject = ev.arg
    /\ ui.showPreview

\* the timer its kind set last: the one the ref, or the effect's cleanup, holds
LatestTimer(kind) ==
    CASE kind = "interactionTimeout" -> interactionTimeoutRef
      [] kind = "tooltipTimeout" -> tooltipTimeoutRef
      [] kind = "clusterTimeout" -> clusterTimeout

\* timer t fires in this step
Fires(t) == t \in timers /\ t \notin timers' /\ ev'.kind = t.kind /\ ev'.arg = t.id

\* C13: a timer callback that runs (300 ms interaction end, 4 s tooltip, 3 s
\* cluster tooltip, 100 ms centring) is the one its kind set last, and the
\* component is still mounted when it runs.
C13_NoStaleTimer ==
    [][ /\ \A t \in timers : Fires(t) => (mounted /\ t.id = LatestTimer(t.kind))
        /\ (centerTimer /\ ~centerTimer' /\ ev'.kind = "init") => mounted ]_vars

----------------------------------------------------------------------------
(* The clustering engine *)

\* how often a project occurs among the members of the clusters
Occurrences(cs, project) ==
    Cardinality({ ck \in { <<c, k>> : c \in DOMAIN cs, k \in 1..MaxPoints + 1 } :
                    /\ ck[2] <= Len(cs[ck[1]].projects)
                    /\ cs[ck[1]].projects[ck[2]] = project })

\* C15: the clusters partition the input: every project of filteredProjects is
\* a member of exactly one cluster, once; no cluster is empty; every member
\* of a cluster is a project of filteredProjects.
C15_ClustersPartitionInput ==
    /\ \A i \in DOMAIN filteredProjects : Occurrences(clusters, filteredProjects[i]) = 1
    /\ \A c \in DOMAIN clusters : Len(clusters[c].projects) >= 1
    /\ \A c \in DOMAIN clusters : \A k \in DOMAIN clusters[c].projects :
           \E i \in DOMAIN filteredProjects : clusters[c].projects[k] = filteredProjects[i]

\* after a change of scale, three projects or more are in at least two
\* clusters, one of them of several projects
C15_Witness ==
    /\ ev.kind = "scale"
    /\ Len(filteredProjects) >= 3
    /\ Len(clusters) >= 2
    /\ \E c \in DOMAIN clusters : Len(clusters[c].projects) >= 2

\* C16: the number of clusters does not decrease as the scale grows: the
\* clustering of the same projects at any larger scale has at least as many
\* clusters as the one at the current scale.
C16_CountMonotoneInScale ==
    \A s \in ClusterScales :
        s > transform.scale => Len(clusters) <= Len(clusterMarkers(filteredProjects, s))

\* the radius at the current scale is smaller than the distance of any two projects
RadiusBelowDistances ==
    \A i, j \in DOMAIN filteredProjects :
        i < j => ~(distanceSq(denormalize(filteredProjects[i]), denormalize(filteredProjects[j]))
                     <= clusterRadius(transform.scale) * clusterRadius(transform.scale))

\* C17: when the radius is smaller than the smallest distance between two
\* projects, there are as many clusters as projects and each has one member.
C17_SingletonsBelowMinDistance ==
    RadiusBelowDistances =>
        /\ Len(clusters) = Len(filteredProjects)
        /\ \A c \in DOMAIN clusters : Len(clusters[c].projects) = 1

\* after a change of scale, three projects are further apart than the radius,
\* two of them closer than twice the radius
C17_Witness ==
    /\ ev.kind = "scale"
    /\ RadiusBelowDistances
    /\ Len(filteredProjects) >= 3
    /\ Len(clusters) = 3
    /\ \E i, j \in DOMAIN filteredProjects :
           /\ i < j
           /\ withinRadiusDoubled(distanceSq(denormalize(filteredProjects[i]),
                                             denormalize(filteredProjects[j])),
                                  transform.scale)

----------------------------------------------------------------------------
(* The colours of the convocatorias *)

\* the map after the calls of history, in the order order, on an empty map
RECURSIVE MapAfter(_, _, _)
MapAfter(map, history, order) ==
    IF order = <<>> THEN map
    ELSE LET call == history[Head(order)]
         IN  MapAfter(IF call.op = "get"
                      THEN getConvocatoriaColor(map, call.convocatoria).map
                      ELSE registerConvocatorias(map, call.convocatorias),
                      history, Tail(order))

Orders(n) == { order \in [1..n -> 1..n] : \A i, j \in 1..n : order[i] = order[j] => i = j }

\* C18: the colour of a label does not depend on the order of the calls: the
\* same lookups and registrations made in any other order on an empty map
\* leave every label with the colour index it has now.
C18_ColourOrderIndependent ==
    \A order \in Orders(Len(calls)) :
        \A convocatoria \in DOMAIN convocatoriaColorMap :
            MapAfter(<<>>, calls, order)[convocatoria] = convocatoriaColorMap[convocatoria]

\* the call of the step, when the step is a lookup or a registration
IsCall == Len(calls') = Len(calls) + 1
TheCall == calls'[Len(calls')]

\* C19: a lookup or a registration leaves every label that has a colour with
\* that colour, a lookup of such a label returns it, and a lookup with an
\* undefined or empty label returns the first colour and leaves the map as
\* it is; only resetConvocatoriaColorMap takes a colour away.
C19_ColourStableUntilReset ==
    [][ IsCall =>
          /\ \A convocatoria \in DOMAIN convocatoriaColorMap :
                 /\ convocatoria \in DOMAIN convocatoriaColorMap'
                 /\ convocatoriaColorMap'[convocatoria] = convocatoriaColorMap[convocatoria]
          /\ (TheCall.op = "get" /\ TheCall.convocatoria \in DOMAIN convocatoriaColorMap)
                 => TheCall.color = convocatoriaColorMap[TheCall.convocatoria]
          /\ (TheCall.op = "get" /\ Falsy(TheCall.convocatoria))
                 => /\ TheCall.color = 0
                    /\ convocatoriaColorMap' = convocatoriaColorMap ]_vars

\* "B" is looked up first, then registered together with "A", which sorts
\* before it, then looked up again and has the colour of the first lookup
C19_Witness ==
    /\ Len(calls) = 3
    /\ calls[1].op = "get" /\ calls[1].convocatoria = "B"
    /\ calls[2].op = "register" /\ calls[2].convocatorias = {"A", "B"}
    /\ calls[3].op = "get" /\ calls[3].convocatoria = "B"
    /\ calls[3].color = calls[1].color

\* C20: a label gets its colour from the registration, not from a lookup made
\* before it: whenever a label that had no colour has one after a step, it is
\* the index that registerConvocatorias gives it for the projects shown.
C20_RegisteredBeforeLookup ==
    [][ \A convocatoria \in Convocatorias :
          (convocatoria \notin DOMAIN convocatoriaColorMap
               /\ convocatoria \in DOMAIN convocatoriaColorMap')
          => convocatoriaColorMap'[convocatoria] =
                 registerConvocatorias(convocatoriaColorMap,
                                       convocatoriasOf(filteredProjects'))[convocatoria] ]_vars

\* C28: while at most paletteLength labels have a colour, no two labels have
\* the same colour index.
C28_NoSharedColour ==
    Cardinality(DOMAIN convocatoriaColorMap) <= paletteLength =>
        \A a, b \in DOMAIN convocatoriaColorMap :
            convocatoriaColorMap[a] = convocatoriaColorMap[b] => a = b

----------------------------------------------------------------------------
(* The tap protocol of the markers *)

\* the tooltip timers pending after the step are exactly the one the ref holds,
\* and that one was set by the step
TooltipTimerRestarted ==
    /\ Timer("tooltipTimeout", tooltipTimeoutRef') \in timers'
    /\ Timer("tooltipTimeout", tooltipTimeoutRef') \notin timers
    /\ \A t \in timers' : t.kind = "tooltipTimeout" => t.id = tooltipTimeoutRef'

\* C23: on a device without hover, a tap on a marker whose tooltip is the one
\* the map shows (tappedMarkerId of the render is the project) opens the
\* project; any other tap opens nothing, shows the tooltip of the tapped marker
\* in place of any other and restarts the 4 s timer; when that timer fires,
\* tappedMarkerId, hoveredProject, hoveredMarkerPosition and
\* isMobileTooltipVisible are cleared in one step.
C23_TapProtocol ==
    [][ /\ (Delivered /\ ev'.kind = "markertouchend" /\ ~hoverDevice) =>
              IF uiView.hooks.tappedMarkerId = ev'.arg
              THEN /\ Opened(ev'.arg)
                   /\ timers' = timers
              ELSE /\ selectedProject' = selectedProject
                   /\ ui'.showPreview = ui.showPreview
                   /\ ui'.previewProject = ui.previewProject
                   /\ ui'.tappedMarkerId = ev'.arg
                   /\ ui'.hoveredProject = ev'.arg
                   /\ ui'.hoveredMarkerPosition = MarkerPosition(ev'.arg)
                   /\ ui'.isMobileTooltipVisible
                   /\ TooltipTimerRestarted
        /\ \A t \in timers : (Fires(t) /\ t.kind = "tooltipTimeout" /\ mounted) =>
              /\ ui'.tappedMarkerId = NoProject
              /\ ui'.hoveredProject = NoProject
              /\ ui'.hoveredMarkerPosition = NoPosition
              /\ ~ui'.isMobileTooltipVisible ]_vars

\* a second tap on the marker whose tooltip is shown has opened its project,
\* the timer of the first tap still pending
C23_Witness ==
    /\ ~hoverDevice
    /\ ev.kind = "markertouchend"
    /\ uiView.hooks.tappedMarkerId = ev.arg
    /\ ui.tappedMarkerId = ev.arg
    /\ selectedProject = ev.arg
    /\ ui.showPreview
    /\ Timer("tooltipTimeout", tooltipTimeoutRef) \in timers

(* C27: when the migration flag 'projects-migrated-to-supabase' becomes    *)
(* set, every project stored under 'mexico-social-projects' has been       *)
(* imported to the server; a bulk import that failed does not set it.      *)
C27_FlagMeansImported ==
    [][(~migrated /\ migrated') => localStore \subseteq server']_vars

(* C25: isSyncing is true whenever at least one call of addProject,        *)
(* removeProject or clearAllProjects is in flight, overlapping calls       *)
(* included.                                                               *)
C25_SyncingWhileInFlight == ops # {} => isSyncing

\* the two lists hold the same projects, a missing convocatoria read as the default
SameProjects(local, remote) == withConvocatoria(local) = withConvocatoria(remote)

\* the call ends in this step, after its request to the server failed
EndsFailed(op) ==
    /\ op.pc \in {"refetch", "fetched"}
    /\ \A later \in ops' : later.id # op.id

(* C21: when the server call of addProject, removeProject or               *)
(* clearAllProjects fails, the optimistic change is reverted: once the     *)
(* call has finished, the local list equals the server's list.  Stated for *)
(* a call made alone on a list loaded from the server.                     *)
C21_FailedCallReverted ==
    [][\A op \in ops :
           (load = "loaded" /\ nOps = 1 /\ EndsFailed(op)) => SameProjects(projects', server')]_vars

\* this step sets the list from the server or from the sample data
Loads ==
    \/ load' \in {"loaded", "fallback"} /\ load \notin {"loaded", "fallback"}
    \/ \E op \in ops : op.pc = "fetched" /\ \A later \in ops' : later.id # op.id

(* C22: every project loaded from the server or from the fallback sample   *)
(* has a non-empty convocatoria, on the initial load, on the sample-data   *)
(* path and after the refetch that reverts a failed call.                  *)
C22_LoadedHaveConvocatoria ==
    [][Loads => \A q \in projects' : q.convocatoria \notin {undefined, ""}]_vars

(* C26: once every call of an overlapping set of addProject, removeProject *)
(* and clearAllProjects calls has completed, by success or failure and in  *)
(* whatever order the server processed them, the local list holds the same *)
(* projects as the server.                                                 *)
C26_ConvergesAfterOverlap ==
    (load = "loaded" /\ nOps > 0 /\ ops = {}) => SameProjects(projects, server)

\* the preview panel is rendered: showPreview && previewProject
PreviewShown == ui.showPreview /\ ui.previewProject # NoProject

\* this step is removeProject of the selected project, or clearAllProjects
RemovesSelected ==
    \E op \in ops' :
        /\ \A earlier \in ops : earlier.id # op.id
        /\ \/ op.kind = "remove" /\ op.project.id = selectedProject
           \/ op.kind = "clear"

(* C24: the preview follows selectedProject.  In every settled state the   *)
(* preview panel is shown if and only if selectedProject is non-null, and  *)
(* then previewProject is the selected project; removing the selected      *)
(* project, or clearing the projects, sets selectedProject to null, so the *)
(* preview is closed once settled.                                         *)
C24_PreviewFollowsSelected ==
    /\ [](Settled /\ mounted =>
             /\ PreviewShown <=> selectedProject # NoProject
             /\ PreviewShown => ui.previewProject = selectedProject)
    /\ [][RemovesSelected => selectedProject' = NoProject]_vars

\* a marker was clicked and its preview opened; removeProject of that project
\* has closed it
C24_Witness ==
    /\ Settled
    /\ hoverDevice
    /\ ev.kind = "markerclick"
    /\ nOps = 1
    /\ \E op \in ops : op.kind = "remove" /\ op.project.id = ev.arg
    /\ selectedProject = NoProject
    /\ ~PreviewShown
    /\ uiView.hooks.previewProject = NoProject

====
